---- MODULE Spec2Model ----
(***************************************************************************)
(* Model of locate_cell (src/firedrake/locate.c): the search for the mesh  *)
(* cell that contains a physical point, over the four candidate sources    *)
(* (R-tree indexed or exhaustive, flat or extruded mesh).                  *)
(*                                                                         *)
(* One call of locate_cell is a run of small steps: entry, the R-tree      *)
(* query, one step per loop iteration, the release of the id buffer and    *)
(* the return.  The mesh, the tolerance, the ids the R-tree yields and the *)
(* distance each cell's containment test reports are the inputs, drawn in  *)
(* Init; the same inputs are then used for every call of the behaviour.    *)
(***************************************************************************)
EXTENDS Integers, Sequences, FiniteSets

\* ---------------------------------------------------------------- bounds
MaxCols == 2      \* f->n_cols ranges over 0..MaxCols
MaxLayers == 2    \* f->n_layers ranges over 1..MaxLayers on extruded meshes
MaxIds == 3       \* the R-tree query yields at most MaxIds ids
MaxDist == 2      \* containment distances range over MinDist..MaxDist
MaxTol == 3       \* tolerance ranges over 0..MaxTol
MaxCalls == 2     \* locate_cell is called at most MaxCalls times

MinDist == 0 - 1
Dists == MinDist..MaxDist

\* DBL_MAX: larger than every distance a containment test reports
DBL_MAX == MaxDist + 1

\* RTError: the only value ever stored in err
RT_None == "RT_None"

VARIABLES
    f,                          \* struct Function: sidx2, extruded, n_cols, n_layers
    tolerance,                  \* the static tolerance
    rtree,                      \* the ids the R-tree query yields for x, in its order
    l1dist,                     \* what the containment test reports per cell
    pc,                         \* position in locate_cell
    err, cell, ref_cell_dist_l1, current_ref_cell_dist_l1,
    ids, nids, i, c, l,         \* locals of locate_cell
    temp_ref_coords, found_ref_coords, found_ref_cell_dist_l1,
    ret,                        \* value of the last return
    tests,                      \* containment tests made by the current call
    mallocs, frees,             \* allocations and releases of ids in the current call
    calls,                      \* number of calls started
    first,                      \* outcome of the first call
    before                      \* the output buffers at entry of the current call

inputs == <<f, tolerance, rtree, l1dist>>
locals == <<err, cell, ref_cell_dist_l1, current_ref_cell_dist_l1, ids, nids, i, c, l>>
buffers == <<temp_ref_coords, found_ref_coords, found_ref_cell_dist_l1>>
ghosts == <<tests, mallocs, frees, calls, first, before>>
vars == <<inputs, pc, locals, buffers, ret, ghosts>>

\* ------------------------------------------------------------ the inputs
Functions ==
    { g \in [sidx2 : BOOLEAN, extruded : {0, 1},
             n_cols : 0..MaxCols, n_layers : 1..MaxLayers] :
        g.extruded = 0 => g.n_layers = 1 }

\* ids the R-tree holds: 1-based cell numbers, or column-major ids if extruded
IndexIds(g) ==
    IF g.extruded = 0 THEN 1..g.n_cols ELSE 0..(g.n_cols * g.n_layers - 1)

\* sequences of at most n distinct elements of S
DistinctSeqs(S, n) ==
    { s \in UNION { [1..k -> S] : k \in 0..n } :
        \A a, b \in DOMAIN s : a # b => s[a] # s[b] }

\* arguments of the containment tests a call can make
TestArgs(g, r) ==
    IF g.sidx2
    THEN IF g.extruded = 0
         THEN { <<r[k] - 1>> : k \in DOMAIN r }
         ELSE { <<r[k] \div g.n_layers, r[k] % g.n_layers>> : k \in DOMAIN r }
    ELSE IF g.extruded = 0
         THEN { <<n>> : n \in 0..(g.n_cols - 1) }
         ELSE (0..(g.n_cols - 1)) \X (0..(g.n_layers - 1))

\* ------------------------------------------------- the containment tests
\* flat: (temp_ref_coords, f, cell, x) -> distance
try_candidate(cand) ==
    [ref |-> <<cand>>, dist |-> l1dist[<<cand>>]]

\* extruded: (temp_ref_coords, f, column, layer, x) -> distance
try_candidate_xtr(col, lay) ==
    [ref |-> <<col, lay>>, dist |-> l1dist[<<col, lay>>]]

\* ------------------------------------------------- the acceptance policy
ExactHitStrict(d) == d < 0
ExactHit(d) == d <= 0

CloserThanMax(d, best) == d < DBL_MAX
CloserFlipped(d, best) == d > best
Closer(d, best) == d < best

UnderToleranceInclusive(d) == d <= tolerance
UnderToleranceFlipped(d) == d > tolerance
UnderTolerance(d) == d < tolerance

\* 1-based id of the R-tree to cell number
FlatCandidate(id) == id - 1

\* value stored in cell when a candidate of the R-tree is accepted
IndexedFlatFoundRaw(id) == id
IndexedFlatFound(id) == FlatCandidate(id)
IndexedXtrFound(id) == id

\* column-major id to column and layer
DecodeColumn(id, nlayers) == id \div nlayers
DecodeLayer(id, nlayers) == id % nlayers

\* column and layer to column-major id
EncodeSwapped(col, lay, nlayers) == lay * nlayers + col
Encode(col, lay, nlayers) == col * nlayers + lay

\* the test and the if / else-if, with the copy to the outputs made for
\* every closer candidate, under tolerance or not
TryAcceptEagerCopy(found, r) ==
    /\ temp_ref_coords' = r.ref
    /\ current_ref_cell_dist_l1' = r.dist
    /\ tests' = Append(tests, [ref |-> r.ref, dist |-> r.dist, found |-> found])
    /\ IF ExactHit(r.dist)
       THEN /\ cell' = found
            /\ found_ref_coords' = r.ref
            /\ found_ref_cell_dist_l1' = r.dist
            /\ UNCHANGED ref_cell_dist_l1
       ELSE IF Closer(r.dist, ref_cell_dist_l1)
       THEN /\ ref_cell_dist_l1' = r.dist
            /\ found_ref_coords' = r.ref
            /\ found_ref_cell_dist_l1' = r.dist
            /\ IF UnderTolerance(r.dist)
               THEN cell' = found
               ELSE UNCHANGED cell
       ELSE UNCHANGED <<cell, ref_cell_dist_l1, found_ref_coords,
                        found_ref_cell_dist_l1>>

\* One containment test and the if / else-if that follows it.  r is what
\* the test produced, found is the value stored in cell on acceptance.
TryAccept(found, r) ==
    /\ temp_ref_coords' = r.ref
    /\ current_ref_cell_dist_l1' = r.dist
    /\ tests' = Append(tests, [ref |-> r.ref, dist |-> r.dist, found |-> found])
    /\ IF ExactHit(r.dist)
       THEN /\ cell' = found
            /\ found_ref_coords' = r.ref
            /\ found_ref_cell_dist_l1' = r.dist
            /\ UNCHANGED ref_cell_dist_l1
       ELSE IF Closer(r.dist, ref_cell_dist_l1)
       THEN /\ ref_cell_dist_l1' = r.dist
            /\ IF UnderTolerance(r.dist)
               THEN /\ cell' = found
                    /\ found_ref_coords' = r.ref
                    /\ found_ref_cell_dist_l1' = r.dist
               ELSE UNCHANGED <<cell, found_ref_coords, found_ref_cell_dist_l1>>
       ELSE UNCHANGED <<cell, ref_cell_dist_l1, found_ref_coords,
                        found_ref_cell_dist_l1>>

\* ------------------------------------------------------------------ Init
NoOutcome == [ret |-> 0 - 2, coords |-> <<>>, dist |-> DBL_MAX]

Init ==
    /\ f \in Functions
    /\ tolerance \in 0..MaxTol
    /\ rtree \in (IF f.sidx2 THEN DistinctSeqs(IndexIds(f), MaxIds) ELSE {<<>>})
    /\ l1dist \in [TestArgs(f, rtree) -> Dists]
    /\ pc = "start"
    /\ err = RT_None
    /\ cell = 0 - 1
    /\ ref_cell_dist_l1 = DBL_MAX
    /\ current_ref_cell_dist_l1 = MinDist
    /\ ids = <<>>
    /\ nids = 0
    /\ i = 0
    /\ c = 0
    /\ l = 0
    /\ temp_ref_coords = <<>>
    /\ found_ref_coords = <<>>
    /\ found_ref_cell_dist_l1 = DBL_MAX
    /\ ret = 0 - 1
    /\ tests = <<>>
    /\ mallocs = 0
    /\ frees = 0
    /\ calls = 0
    /\ first = NoOutcome
    /\ before = [coords |-> <<>>, dist |-> DBL_MAX]

\* --------------------------------------------------------------- actions
\* value of ref_cell_dist_l1 at entry
EntryBestStale == ref_cell_dist_l1
EntryBest == DBL_MAX

\* entry of locate_cell: the locals and the choice of the branch
Call ==
    /\ pc \in {"start", "done"}
    /\ calls < MaxCalls
    /\ err' = RT_None
    /\ cell' = 0 - 1
    /\ ref_cell_dist_l1' = EntryBest
    /\ current_ref_cell_dist_l1' = MinDist
    /\ ids' = <<>>
    /\ nids' = 0
    /\ i' = 0
    /\ c' = 0
    /\ l' = 0
    /\ pc' = IF f.sidx2 THEN "query"
             ELSE IF f.extruded = 0 THEN "exh_flat" ELSE "exh_xtr_col"
    /\ tests' = <<>>
    /\ mallocs' = 0
    /\ frees' = 0
    /\ calls' = calls + 1
    /\ before' = [coords |-> found_ref_coords, dist |-> found_ref_cell_dist_l1]
    /\ UNCHANGED <<inputs, buffers, ret, first>>

\* the R-tree query into a fresh buffer, and the check of err
QueryRtree ==
    /\ pc = "query"
    /\ nids' = Len(rtree)
    /\ ids' = rtree
    /\ mallocs' = mallocs + 1
    /\ pc' = IF err # RT_None THEN "return"
             ELSE IF f.extruded = 0 THEN "idx_flat" ELSE "idx_xtr"
    /\ UNCHANGED <<inputs, err, cell, ref_cell_dist_l1, current_ref_cell_dist_l1,
                   i, c, l, buffers, ret, tests, frees, calls, first, before>>

\* one round of the loop over ids, flat mesh
IndexedFlatStep ==
    /\ pc = "idx_flat"
    /\ IF i < nids
       THEN LET candidate == FlatCandidate(ids[i + 1])
                r == try_candidate(candidate)
            IN  /\ TryAccept(IndexedFlatFound(ids[i + 1]), r)
                /\ IF ExactHit(r.dist)
                   THEN pc' = "free" /\ UNCHANGED i
                   ELSE i' = i + 1 /\ UNCHANGED pc
       ELSE /\ pc' = "free"
            /\ UNCHANGED <<i, cell, ref_cell_dist_l1, current_ref_cell_dist_l1,
                           buffers, tests>>
    /\ UNCHANGED <<inputs, err, ids, nids, c, l, ret, mallocs, frees, calls, first, before>>

\* one round of the loop over ids, extruded mesh
IndexedXtrStep ==
    /\ pc = "idx_xtr"
    /\ IF i < nids
       THEN LET nlayers == f.n_layers
                col == DecodeColumn(ids[i + 1], nlayers)
                lay == DecodeLayer(ids[i + 1], nlayers)
                r == try_candidate_xtr(col, lay)
            IN  /\ TryAccept(IndexedXtrFound(ids[i + 1]), r)
                /\ IF ExactHit(r.dist)
                   THEN pc' = "free" /\ UNCHANGED i
                   ELSE i' = i + 1 /\ UNCHANGED pc
       ELSE /\ pc' = "free"
            /\ UNCHANGED <<i, cell, ref_cell_dist_l1, current_ref_cell_dist_l1,
                           buffers, tests>>
    /\ UNCHANGED <<inputs, err, ids, nids, c, l, ret, mallocs, frees, calls, first, before>>

\* free(ids) without the release
FreeIdsLeak ==
    /\ pc = "free"
    /\ pc' = "return"
    /\ UNCHANGED <<inputs, locals, buffers, ret, ghosts>>

\* free(ids)
FreeIds ==
    /\ pc = "free"
    /\ ids' = <<>>
    /\ frees' = frees + 1
    /\ pc' = "return"
    /\ UNCHANGED <<inputs, err, cell, ref_cell_dist_l1, current_ref_cell_dist_l1,
                   nids, i, c, l, buffers, ret, tests, mallocs, calls, first, before>>

\* one round of the loop over the cells, flat mesh, no index
ExhaustiveFlatStep ==
    /\ pc = "exh_flat"
    /\ IF c < f.n_cols
       THEN LET r == try_candidate(c)
            IN  /\ TryAccept(c, r)
                /\ IF ExactHit(r.dist)
                   THEN pc' = "return" /\ UNCHANGED c
                   ELSE c' = c + 1 /\ UNCHANGED pc
       ELSE /\ pc' = "return"
            /\ UNCHANGED <<c, cell, ref_cell_dist_l1, current_ref_cell_dist_l1,
                           buffers, tests>>
    /\ UNCHANGED <<inputs, err, ids, nids, i, l, ret, mallocs, frees, calls, first, before>>

\* head of the loop over the columns, extruded mesh, no index
ExhaustiveXtrColumn ==
    /\ pc = "exh_xtr_col"
    /\ IF c < f.n_cols
       THEN l' = 0 /\ pc' = "exh_xtr_lay"
       ELSE pc' = "return" /\ UNCHANGED l
    /\ UNCHANGED <<inputs, err, cell, ref_cell_dist_l1, current_ref_cell_dist_l1,
                   ids, nids, i, c, buffers, ret, ghosts>>

\* one round of the loop over the layers of column c
ExhaustiveXtrLayer ==
    /\ pc = "exh_xtr_lay"
    /\ IF l < f.n_layers
       THEN LET r == try_candidate_xtr(c, l)
            IN  /\ TryAccept(l, r)
                /\ IF ExactHit(r.dist)
                   THEN pc' = "exh_xtr_end" /\ UNCHANGED l
                   ELSE l' = l + 1 /\ UNCHANGED pc
       ELSE /\ pc' = "exh_xtr_end"
            /\ UNCHANGED <<l, cell, ref_cell_dist_l1, current_ref_cell_dist_l1,
                           buffers, tests>>
    /\ UNCHANGED <<inputs, err, ids, nids, i, c, ret, mallocs, frees, calls, first, before>>

\* after the layers of column c, leaving only on an exact hit
ExhaustiveXtrColumnEndExactOnly ==
    /\ pc = "exh_xtr_end"
    /\ IF cell # 0 - 1 /\ current_ref_cell_dist_l1 <= 0
       THEN /\ cell' = Encode(c, cell, f.n_layers)
            /\ pc' = "return"
            /\ UNCHANGED c
       ELSE /\ c' = c + 1
            /\ pc' = "exh_xtr_col"
            /\ UNCHANGED cell
    /\ UNCHANGED <<inputs, err, ref_cell_dist_l1, current_ref_cell_dist_l1,
                   ids, nids, i, l, buffers, ret, ghosts>>

\* after the layers of column c: leave with the cell id, or go on
ExhaustiveXtrColumnEnd ==
    /\ pc = "exh_xtr_end"
    /\ IF cell # 0 - 1
       THEN /\ cell' = Encode(c, cell, f.n_layers)
            /\ pc' = "return"
            /\ UNCHANGED c
       ELSE /\ c' = c + 1
            /\ pc' = "exh_xtr_col"
            /\ UNCHANGED cell
    /\ UNCHANGED <<inputs, err, ref_cell_dist_l1, current_ref_cell_dist_l1,
                   ids, nids, i, l, buffers, ret, ghosts>>

\* return cell
Return ==
    /\ pc = "return"
    /\ ret' = cell
    /\ pc' = "done"
    /\ first' = IF calls = 1
                THEN [ret |-> cell, coords |-> found_ref_coords,
                      dist |-> found_ref_cell_dist_l1]
                ELSE first
    /\ UNCHANGED <<inputs, locals, buffers, tests, mallocs, frees, calls, before>>

Next ==
    \/ Call
    \/ QueryRtree
    \/ IndexedFlatStep
    \/ IndexedXtrStep
    \/ FreeIds
    \/ ExhaustiveFlatStep
    \/ ExhaustiveXtrColumn
    \/ ExhaustiveXtrLayer
    \/ ExhaustiveXtrColumnEnd
    \/ Return

Spec == Init /\ [][Next]_vars

\* ------------------------------------------- calls on changed arguments
\* the orders in which the R-tree can yield the ids of rtree
Reorderings(r) ==
    { s \in [DOMAIN r -> { r[k] : k \in DOMAIN r }] :
        \A a, b \in DOMAIN s : a # b => s[a] # s[b] }

\* between two calls: the R-tree yields the same ids in another order, and
\* the caller passes output buffers as they were before the first call
Reindex ==
    /\ pc = "done"
    /\ calls < MaxCalls
    /\ f.sidx2
    /\ rtree' \in Reorderings(rtree) \ {rtree}
    /\ found_ref_coords' = <<>>
    /\ found_ref_cell_dist_l1' = DBL_MAX
    /\ UNCHANGED <<f, tolerance, l1dist, pc, locals, temp_ref_coords, ret, ghosts>>

NextReorder ==
    \/ Call
    \/ QueryRtree
    \/ IndexedFlatStep
    \/ IndexedXtrStep
    \/ FreeIds
    \/ ExhaustiveFlatStep
    \/ ExhaustiveXtrColumn
    \/ ExhaustiveXtrLayer
    \/ ExhaustiveXtrColumnEnd
    \/ Return
    \/ Reindex

SpecReorder == Init /\ [][NextReorder]_vars

\* every id of the mesh in ascending order: 1..N, or 0..C*L-1 if extruded
AllIdsAscending(g) ==
    IF g.extruded = 0
    THEN [k \in 1..g.n_cols |-> k]
    ELSE [k \in 1..(g.n_cols * g.n_layers) |-> k - 1]

\* between two calls: the index, which yielded every cell in ascending
\* order, is detached from the mesh (f->sidx2 == NULL from now on), and the
\* caller passes output buffers as they were before the first call
DetachIndex ==
    /\ pc = "done"
    /\ calls < MaxCalls
    /\ f.sidx2
    /\ rtree = AllIdsAscending(f)
    /\ f' = [f EXCEPT !.sidx2 = FALSE]
    /\ found_ref_coords' = <<>>
    /\ found_ref_cell_dist_l1' = DBL_MAX
    /\ UNCHANGED <<tolerance, rtree, l1dist, pc, locals, temp_ref_coords, ret, ghosts>>

NextDetach ==
    \/ Call
    \/ QueryRtree
    \/ IndexedFlatStep
    \/ IndexedXtrStep
    \/ FreeIds
    \/ ExhaustiveFlatStep
    \/ ExhaustiveXtrColumn
    \/ ExhaustiveXtrLayer
    \/ ExhaustiveXtrColumnEnd
    \/ Return
    \/ DetachIndex

SpecDetach == Init /\ [][NextDetach]_vars

\* ------------------------------------------------------------ vocabulary
TypeOK ==
    /\ f \in Functions
    /\ tolerance \in 0..MaxTol
    /\ pc \in {"start", "query", "idx_flat", "idx_xtr", "free", "exh_flat",
               "exh_xtr_col", "exh_xtr_lay", "exh_xtr_end", "return", "done"}
    /\ err = RT_None
    /\ cell \in (0 - 1)..(MaxCols * MaxLayers + MaxCols)
    /\ ref_cell_dist_l1 \in Dists \cup {DBL_MAX}
    /\ calls \in 0..MaxCalls


\* the call has returned
Returned == pc = "done"

\* the cells the active candidate source offers, as test arguments
Candidates == DOMAIN l1dist

\* cell id of a candidate: the cell number, or column * layerCount + layer
CellIdOf(a) == IF f.extruded = 0 THEN a[1] ELSE a[1] * f.n_layers + a[2]

\* place of a candidate in the iteration order of the active source
Position(a) ==
    IF f.sidx2
    THEN CHOOSE k \in DOMAIN rtree :
            rtree[k] = (IF f.extruded = 0 THEN a[1] + 1 ELSE CellIdOf(a))
    ELSE CellIdOf(a)

\* smallest distance over the candidates
MinDistance == CHOOSE d \in Dists :
    /\ \E a \in Candidates : l1dist[a] = d
    /\ \A a \in Candidates : l1dist[a] >= d

LastTest == tests[Len(tests)]

\* the outputs are those of the test with arguments a
OutputIs(a) ==
    /\ found_ref_coords = a
    /\ found_ref_cell_dist_l1 = l1dist[a]

\* ---------------------------------------------------------------- claims

\* C1: in every variant, when exactly one candidate has distance < 0 and
\* every other candidate has distance > 0, the call returns the id of that
\* candidate with the reference coordinates and distance of its test.
C1_StrictInteriorFound ==
    Returned =>
        \A a \in Candidates :
            (l1dist[a] < 0 /\ \A b \in Candidates \ {a} : l1dist[b] > 0)
                => (ret = CellIdOf(a) /\ OutputIs(a))

\* C2: in every variant, when every candidate has distance > 0 and the
\* smallest distance is < tolerance, the call returns a cell at that
\* smallest distance and the output distance is that smallest distance.
C2_NearestUnderTolerance ==
    (/\ Returned
     /\ Candidates # {}
     /\ \A a \in Candidates : l1dist[a] > 0
     /\ MinDistance < tolerance)
        => /\ found_ref_cell_dist_l1 = MinDistance
           /\ \E a \in Candidates : l1dist[a] = MinDistance /\ ret = CellIdOf(a)

\* C3: in every variant, when every candidate has distance > 0 and
\* > tolerance (also when there is no candidate), the call returns -1.
C3_BeyondToleranceNotFound ==
    (Returned /\ \A a \in Candidates : l1dist[a] > 0 /\ l1dist[a] > tolerance)
        => ret = 0 - 1

C3_Witness ==
    /\ Returned
    /\ Len(tests) >= 2
    /\ \A a \in Candidates : l1dist[a] > 0 /\ l1dist[a] > tolerance
    /\ ret = 0 - 1

\* C4: when two candidates both have distance 0 (and the others are
\* outside), the call returns the one that is first in the iteration order
\* of the active variant: the lower id under exhaustive search.
C4_FirstOfTwoBoundaryCells ==
    Returned =>
        \A a, b \in Candidates :
            (/\ a # b
             /\ l1dist[a] = 0
             /\ l1dist[b] = 0
             /\ \A o \in Candidates \ {a, b} : l1dist[o] > 0
             /\ Position(a) < Position(b))
                => ret = CellIdOf(a)

C7_SecondCallSame ==
    (Returned /\ calls >= 2)
        => [ret |-> ret, coords |-> found_ref_coords,
            dist |-> found_ref_cell_dist_l1] = first

C7_Witness ==
    /\ Returned
    /\ calls = 2
    /\ ret >= 0
    /\ found_ref_cell_dist_l1 > 0
    /\ first.ret = ret

\* C8: a search of an extruded mesh that returns id >= 0 returns the id
\* whose column id / L and layer id % L are the arguments of the test that
\* produced the outputs; the exhaustive search returns column * L + layer.
C8_LayeredIdMatchesTest ==
    (Returned /\ f.extruded # 0 /\ ret >= 0)
        => LET col == ret \div f.n_layers
               lay == ret % f.n_layers
           IN  /\ found_ref_coords = <<col, lay>>
               /\ \E j \in DOMAIN tests :
                    /\ tests[j].ref = <<col, lay>>
                    /\ tests[j].dist = found_ref_cell_dist_l1
               /\ ret = found_ref_coords[1] * f.n_layers + found_ref_coords[2]

C8_Witness ==
    /\ Returned
    /\ f.extruded # 0
    /\ ~f.sidx2
    /\ f.n_layers >= 2
    /\ ret >= 0
    /\ ret \div f.n_layers >= 1
    /\ ret % f.n_layers >= 1

\* C9: the indexed flat search tests cell k-1 for every id k of the index
\* and reports k-1 when it accepts it; the indexed extruded search reports
\* the id of the index unchanged.
C9_IndexIdsOneBased ==
    f.sidx2 =>
        /\ f.extruded = 0 =>
              \A j \in DOMAIN tests : tests[j].ref = <<rtree[j] - 1>>
        /\ (Returned /\ ret >= 0) =>
              \E j \in DOMAIN tests :
                 /\ ret = (IF f.extruded = 0 THEN rtree[j] - 1 ELSE rtree[j])
                 /\ found_ref_coords = tests[j].ref
                 /\ found_ref_cell_dist_l1 = tests[j].dist

C9_Witness ==
    /\ Returned
    /\ f.sidx2
    /\ f.extruded = 0
    /\ Len(tests) >= 1
    /\ ret >= 0
    /\ ret = rtree[Len(tests)] - 1

\* C10: after a test that reports a distance <= 0 no further test is made
\* in the call, and the returned cell and the outputs are those of that
\* test, whatever was recorded before.
C10_ExactHitStops ==
    /\ \A j \in DOMAIN tests : j < Len(tests) => tests[j].dist > 0
    /\ (Returned /\ tests # <<>> /\ LastTest.dist <= 0)
          => /\ ret = CellIdOf(LastTest.ref)
             /\ OutputIs(LastTest.ref)

C10_Witness ==
    /\ Returned
    /\ Len(tests) >= 2
    /\ Cardinality(Candidates) > Len(tests)
    /\ LastTest.dist <= 0
    /\ tests[Len(tests) - 1].dist > 0
    /\ tests[Len(tests) - 1].dist < tolerance
    /\ ret = CellIdOf(LastTest.ref)


\* test j of the current call was accepted: an exact hit, or closer than
\* every test before it and under tolerance
AcceptedAt(j) ==
    \/ tests[j].dist <= 0
    \/ /\ tests[j].dist < tolerance
       /\ \A k \in 1..(j - 1) : tests[k].dist > tests[j].dist

\* some test of column col was accepted
ColumnAccepted(col) ==
    \E j \in DOMAIN tests : tests[j].ref[1] = col /\ AcceptedAt(j)

ExhaustiveXtr == ~f.sidx2 /\ f.extruded # 0

\* C11: the exhaustive extruded search tests columns in ascending order and
\* layers in ascending order within a column; a tentative acceptance does
\* not end the layers of its column; after a column with an acceptance no
\* later column is tested; a column without acceptance is followed by the
\* next column.
C11_ColumnByColumn ==
    ExhaustiveXtr =>
        /\ tests # <<>> => tests[1].ref = <<0, 0>>
        /\ \A j \in 1..(Len(tests) - 1) :
              LET a == tests[j].ref
                  b == tests[j + 1].ref
              IN  \/ /\ b = <<a[1], a[2] + 1>>
                     /\ tests[j].dist > 0
                  \/ /\ b = <<a[1] + 1, 0>>
                     /\ a[2] = f.n_layers - 1
                     /\ ~ColumnAccepted(a[1])
        /\ Returned =>
              IF tests = <<>> THEN f.n_cols = 0
              ELSE \/ LastTest.dist <= 0
                   \/ /\ LastTest.ref[2] = f.n_layers - 1
                      /\ \/ ColumnAccepted(LastTest.ref[1])
                         \/ LastTest.ref[1] = f.n_cols - 1

C11_Witness ==
    /\ Returned
    /\ ExhaustiveXtr
    /\ f.n_cols = 2
    /\ f.n_layers = 2
    /\ Len(tests) = 2
    /\ tests[1].dist > 0
    /\ AcceptedAt(1)
    /\ tests[2].ref = <<0, 1>>
    /\ tests[2].dist > 0
    /\ ret = 0


\* no candidate is an exact hit
AllOutside == \A a \in Candidates : l1dist[a] > 0

\* C12 as stated: when no candidate has distance <= 0 and the closest has
\* distance d with 0 < d <= tolerance, d = tolerance included, the call
\* returns that closest candidate and not -1.
C12_ToleranceInclusive ==
    (/\ Returned
     /\ Candidates # {}
     /\ AllOutside
     /\ MinDistance <= tolerance)
        => /\ ret # 0 - 1
           /\ \E a \in Candidates : l1dist[a] = MinDistance /\ ret = CellIdOf(a)

\* C12 amended: when no candidate has distance <= 0 and the closest has
\* distance d with 0 < d < tolerance, the call does not return -1: it
\* returns a candidate whose distance is under tolerance, with the outputs
\* of its test, and that candidate is a closest one in the indexed and the
\* exhaustive flat variants.  When the closest distance equals tolerance
\* (or exceeds it) the call returns -1.
C12_ToleranceStrict ==
    (Returned /\ Candidates # {} /\ AllOutside)
        => IF MinDistance < tolerance
           THEN /\ ret # 0 - 1
                /\ \E a \in Candidates :
                      /\ ret = CellIdOf(a)
                      /\ OutputIs(a)
                      /\ l1dist[a] < tolerance
                      /\ ~ExhaustiveXtr => l1dist[a] = MinDistance
           ELSE ret = 0 - 1

C12_Witness ==
    /\ Returned
    /\ Len(tests) >= 2
    /\ AllOutside
    /\ MinDistance < tolerance
    /\ tests[1].dist >= tolerance
    /\ ret # 0 - 1
    /\ found_ref_cell_dist_l1 = MinDistance


\* C13 (under SpecReorder): for two orders of the same ids of the index,
\* the indexed search returns -1 under one iff it returns -1 under the
\* other, and when no candidate has distance <= 0 the output distance is
\* the same under both.
C13_OrderIndependent ==
    (Returned /\ f.sidx2 /\ calls >= 2)
        => /\ (ret = 0 - 1) <=> (first.ret = 0 - 1)
           /\ AllOutside => found_ref_cell_dist_l1 = first.dist

C13_Witness ==
    /\ Returned
    /\ f.sidx2
    /\ calls >= 2
    /\ AllOutside
    /\ ret >= 0
    /\ ret # first.ret
    /\ found_ref_cell_dist_l1 = first.dist


\* C14 (under SpecDetach): when the index yields every cell of the mesh in
\* ascending id order, the exhaustive search of the same mesh returns the
\* same cell id, reference coordinates and distance as the indexed search
\* did, on flat and on extruded meshes.
C14_IndexedEqualsExhaustive ==
    (Returned /\ calls >= 2 /\ ~f.sidx2 /\ rtree = AllIdsAscending(f))
        => /\ ret = first.ret
           /\ found_ref_coords = first.coords
           /\ found_ref_cell_dist_l1 = first.dist


\* no test of the current call was an exact hit
NoExactHitYet == \A j \in DOMAIN tests : tests[j].dist > 0

\* smallest distance of the tests of the current call
MinTested == CHOOSE d \in Dists :
    /\ \E j \in DOMAIN tests : tests[j].dist = d
    /\ \A j \in DOMAIN tests : tests[j].dist >= d

\* C15: in every variant, at every step before an exact hit, the running
\* best distance is the smallest distance tested so far, and if a tentative
\* result is recorded (cell # -1) the output distance equals the running
\* best distance and is < tolerance; so no tested candidate is closer than
\* a recorded tentative result.
C15_TentativeIsRunningBest ==
    (pc \notin {"start", "done"} /\ tests # <<>> /\ NoExactHitYet)
        => /\ ref_cell_dist_l1 = MinTested
           /\ cell # 0 - 1 =>
                 /\ found_ref_cell_dist_l1 = ref_cell_dist_l1
                 /\ found_ref_cell_dist_l1 < tolerance
                 /\ \A j \in DOMAIN tests :
                       tests[j].dist >= found_ref_cell_dist_l1

C15_Witness ==
    /\ pc \in {"idx_flat", "idx_xtr", "exh_flat", "exh_xtr_lay"}
    /\ Len(tests) >= 2
    /\ NoExactHitYet
    /\ cell # 0 - 1
    /\ tests[1].dist < tolerance
    /\ tests[2].dist < tests[1].dist
    /\ found_ref_cell_dist_l1 = tests[2].dist


\* C16: the output reference coordinates and the output distance are
\* written only when a candidate is accepted, together with the cell id:
\* while no candidate is accepted, and when the call returns -1, both hold
\* the values they had at entry; when the call returns an id >= 0, both
\* come from one accepted test, the one of the returned cell.
C16_OutputsOnlyOnAcceptance ==
    /\ (pc \notin {"start", "done"} /\ cell = 0 - 1)
          => /\ found_ref_coords = before.coords
             /\ found_ref_cell_dist_l1 = before.dist
    /\ (Returned /\ ret = 0 - 1)
          => /\ found_ref_coords = before.coords
             /\ found_ref_cell_dist_l1 = before.dist
    /\ (Returned /\ ret >= 0)
          => \E j \in DOMAIN tests :
                /\ AcceptedAt(j)
                /\ found_ref_coords = tests[j].ref
                /\ found_ref_cell_dist_l1 = tests[j].dist
                /\ ret = CellIdOf(tests[j].ref)

C16_Witness ==
    /\ Returned
    /\ ret = 0 - 1
    /\ Len(tests) >= 2
    /\ tests[2].dist < tests[1].dist
    /\ temp_ref_coords = tests[Len(tests)].ref
    /\ found_ref_coords = before.coords
    /\ found_ref_cell_dist_l1 = before.dist

====
